---- MODULE Spec2Model ----
(***************************************************************************)
(* The master interrupt lock, the CPU synchronization barrier and the      *)
(* wakeup dispatch of src/hinlines.h (synchronize_cpus, wakeup_cpu,        *)
(* wakeup_cpu_mask, wakeup_cpus_mask, Obtain_Interrupt_Lock,               *)
(* Release_Interrupt_Lock).                                                *)
(*                                                                         *)
(* Threads are the CPU threads 0 .. HiCpu-1 (thread i runs with the regs   *)
(* of processor i, cpuad = i, cpubit = CPU_BIT(i)) and the non-CPU threads *)
(* HiCpu .. HiCpu+NumOther-1, which pass regs = NULL.                      *)
(*                                                                         *)
(* obtain_lock / release_lock are a mutex; wait_condition atomically       *)
(* releases the mutex and parks the caller, and the caller reacquires the  *)
(* mutex after it has been signalled; signal_condition wakes one parked    *)
(* thread (none when nobody is parked), broadcast_condition all of them.   *)
(* A wait returns only after a signal or broadcast.                        *)
(*                                                                         *)
(* Code that runs with the mutex held and touches only state guarded by    *)
(* the mutex is one action.  intwait is written before obtain_lock (line   *)
(* 390) and is a step of its own.                                          *)
(***************************************************************************)
EXTENDS Integers, FiniteSets, Sequences, TLC

\* Number of processor slots (sysblk.hicpu), of non-CPU threads, and the
\* largest waittod / waittime value drawn.  Every slot holds a configured
\* processor: sysblk.regs[i] is not NULL for i < HiCpu.
HiCpu == 3
NumOther == 1
MaxTod == 2
MaxTime == 1

\* Owner sentinels of sysblk.intowner: two values that are no processor id
\* (processor ids are 0 .. HiCpu-1).
LOCK_OWNER_OTHER == HiCpu
LOCK_OWNER_NONE == HiCpu + 1

\* intlock value when the mutex is free, and lru_regs == NULL.
NoThread == 0 - 1
NULL == 0 - 1

Cpus == 0 .. (HiCpu - 1)
Others == HiCpu .. (HiCpu + NumOther - 1)
Threads == Cpus \cup Others

(***************************************************************************)
(* CPU_BITMAP arithmetic.                                                  *)
(***************************************************************************)
CPU_BIT(i) == 2 ^ i

\* mask & CPU_BIT(i)
TestBit(mask, i) == (mask \div CPU_BIT(i)) % 2 = 1

\* mask & ~CPU_BIT(i)
ClearBit(mask, i) == IF TestBit(mask, i) THEN mask - CPU_BIT(i) ELSE mask

\* mask ^ CPU_BIT(i)
FlipBit(mask, i) == IF TestBit(mask, i) THEN mask - CPU_BIT(i) ELSE mask + CPU_BIT(i)

RECURSIVE AndNotFrom(_, _, _)
AndNotFrom(mask, drop, i) ==
    IF i >= HiCpu THEN mask
    ELSE AndNotFrom(IF TestBit(drop, i) THEN ClearBit(mask, i) ELSE mask, drop, i + 1)

\* mask & ~drop
AndNot(mask, drop) == AndNotFrom(mask, drop, 0)

AllMasks == 0 .. (CPU_BIT(HiCpu) - 1)

RECURSIVE MaskFrom(_, _)
MaskFrom(S, i) ==
    IF i >= HiCpu THEN 0
    ELSE (IF i \in S THEN CPU_BIT(i) ELSE 0) + MaskFrom(S, i + 1)

\* The bitmap with the bits of the processors in S.
MaskOf(S) == MaskFrom(S, 0)
BitsOf(mask) == {i \in Cpus : TestBit(mask, i)}

VARIABLES
    pc,            \* position of every thread
    intlock,       \* sysblk.intlock: the thread holding the mutex, or NoThread
    intowner,      \* sysblk.intowner
    syncing,       \* sysblk.syncing
    sync_mask,     \* sysblk.sync_mask
    intwait,       \* regs->hostregs->intwait of every processor
    ints_state,    \* IC_INTERRUPT pending on the host regs of every processor
    guest_ints,    \* IC_INTERRUPT pending on the guest regs of every processor
    started_mask,  \* sysblk.started_mask
    waiting_mask,  \* sysblk.waiting_mask
    sie_mode,      \* SIE_MODE(regs) of every processor
    last_op,       \* the operation a holder completed last, "none" for the rest
    signalled,     \* condition signalled by the last step, "" when none
    waittod,       \* regs->waittod of every processor
    waittime,      \* regs->waittime of every processor
    wake_call,     \* the wakeup call just made: [op, mask]; op "none" when none
    intcond        \* signals on regs->intcond issued by that wakeup call

lockvars == <<pc, intlock, intowner, syncing, sync_mask, intwait, ints_state,
              guest_ints, started_mask, waiting_mask, sie_mode, last_op, signalled>>
wakevars == <<waittod, waittime, wake_call, intcond>>
vars == <<pc, intlock, intowner, syncing, sync_mask, intwait, ints_state,
          guest_ints, started_mask, waiting_mask, sie_mode, last_op, signalled,
          waittod, waittime, wake_call, intcond>>

(***************************************************************************)
(* Macros of the processor execution loop used by synchronize_cpus.        *)
(***************************************************************************)
\* AT_SYNCPOINT(regs): the processor is stopped at the interrupt lock.
AT_SYNCPOINT(i) == intwait[i] = 1

\* SIE_MODE(regs): the processor runs a guest; regs->guestregs is in use.
SIE_MODE(i) == sie_mode[i]

\* ON_IC_INTERRUPT(regs): set the interrupt-pending condition.
ON_IC_INTERRUPT(ints, i) == [ints EXCEPT ![i] = 1]

(***************************************************************************)
(* Condition variables.  The threads parked on sync_cond are those at      *)
(* "sync_wait", the threads parked on sync_bc_cond those at "bc_wait".     *)
(***************************************************************************)
Parked(p, at) == {w \in Threads : p[w] = at}

\* signal_condition: some one parked thread, when there is one, is woken.
\* The set of the pc functions that can result.
SignalCondition(p, at, woken) ==
    IF Parked(p, at) = {} THEN {p}
    ELSE {[p EXCEPT ![w] = woken] : w \in Parked(p, at)}

\* broadcast_condition: every parked thread is woken.
BroadcastCondition(p, at, woken) ==
    [w \in Threads |-> IF p[w] = at THEN woken ELSE p[w]]

\* A processor that is started and not in a wait state runs instructions;
\* non-CPU threads always run.
Active(t) ==
    \/ t \in Others
    \/ t \in Cpus /\ TestBit(started_mask, t) /\ ~TestBit(waiting_mask, t)

(***************************************************************************)
(* Obtain_Interrupt_Lock                                                   *)
(***************************************************************************)
\* lines 389-390: if (regs) regs->hostregs->intwait = 1;
ObtainEnter(t) ==
    /\ pc[t] = "run"
    /\ Active(t)
    /\ pc' = [pc EXCEPT ![t] = "lock"]
    /\ intwait' = IF t \in Cpus THEN [intwait EXCEPT ![t] = 1] ELSE intwait
    /\ signalled' = ""
    /\ UNCHANGED <<intlock, intowner, syncing, sync_mask, ints_state, guest_ints,
                   started_mask, waiting_mask, sie_mode, last_op>>
    /\ UNCHANGED wakevars

\* Mutant of ObtainLock: the caller goes on without waiting for the mutex.
ObtainLockNoWait(t) ==
    /\ pc[t] = "lock"
    /\ intlock' = t
    /\ pc' = [pc EXCEPT ![t] = "check"]
    /\ signalled' = ""
    /\ UNCHANGED <<intowner, syncing, sync_mask, intwait, ints_state, guest_ints,
                   started_mask, waiting_mask, sie_mode, last_op>>
    /\ UNCHANGED wakevars

\* line 392: obtain_lock( &sysblk.intlock );
ObtainLock(t) ==
    /\ pc[t] = "lock"
    /\ intlock = NoThread
    /\ intlock' = t
    /\ pc' = [pc EXCEPT ![t] = "check"]
    /\ signalled' = ""
    /\ UNCHANGED <<intowner, syncing, sync_mask, intwait, ints_state, guest_ints,
                   started_mask, waiting_mask, sie_mode, last_op>>
    /\ UNCHANGED wakevars

\* Mutant of SyncParticipate: sync_cond is signalled without the test of
\* line 400.
SyncParticipateSignalAlways(t) ==
    /\ pc[t] = "check"
    /\ t \in Cpus
    /\ syncing = 1
    /\ sync_mask' = ClearBit(sync_mask, t)
    /\ pc' \in SignalCondition([pc EXCEPT ![t] = "bc_wait"], "sync_wait", "sync_woken")
    /\ signalled' = "sync_cond"
    /\ intlock' = NoThread
    /\ UNCHANGED <<intowner, syncing, intwait, ints_state, guest_ints,
                   started_mask, waiting_mask, sie_mode, last_op>>
    /\ UNCHANGED wakevars

\* Mutant of SyncParticipate: lines 400-401 are left out, sync_cond is never
\* signalled.
SyncParticipateNoSignal(t) ==
    /\ pc[t] = "check"
    /\ t \in Cpus
    /\ syncing = 1
    /\ sync_mask' = ClearBit(sync_mask, t)
    /\ pc' = [pc EXCEPT ![t] = "bc_wait"]
    /\ signalled' = ""
    /\ intlock' = NoThread
    /\ UNCHANGED <<intowner, syncing, intwait, ints_state, guest_ints,
                   started_mask, waiting_mask, sie_mode, last_op>>
    /\ UNCHANGED wakevars

\* Mutant of SyncParticipate: line 398 toggles the bit (sync_mask ^= cpubit)
\* instead of clearing it.
SyncParticipateFlipsBit(t) ==
    /\ pc[t] = "check"
    /\ t \in Cpus
    /\ syncing = 1
    /\ sync_mask' = FlipBit(sync_mask, t)
    /\ LET parked == [pc EXCEPT ![t] = "bc_wait"]
       IN  IF sync_mask' = 0
           THEN /\ pc' \in SignalCondition(parked, "sync_wait", "sync_woken")
                /\ signalled' = "sync_cond"
           ELSE /\ pc' = parked
                /\ signalled' = ""
    /\ intlock' = NoThread
    /\ UNCHANGED <<intowner, syncing, intwait, ints_state, guest_ints,
                   started_mask, waiting_mask, sie_mode, last_op>>
    /\ UNCHANGED wakevars

\* lines 396-403: the body of while (sysblk.syncing), up to the wait.
SyncParticipate(t) ==
    /\ pc[t] = "check"
    /\ t \in Cpus
    /\ syncing = 1
    /\ sync_mask' = ClearBit(sync_mask, t)
    /\ LET parked == [pc EXCEPT ![t] = "bc_wait"]
       IN  IF sync_mask' = 0
           THEN /\ pc' \in SignalCondition(parked, "sync_wait", "sync_woken")
                /\ signalled' = "sync_cond"
           ELSE /\ pc' = parked
                /\ signalled' = ""
    /\ intlock' = NoThread
    /\ UNCHANGED <<intowner, syncing, intwait, ints_state, guest_ints,
                   started_mask, waiting_mask, sie_mode, last_op>>
    /\ UNCHANGED wakevars

\* Mutant of BcReacquire: line 396 is an if, not a while: after the wait the
\* processor does not test sysblk.syncing again and becomes the owner.
BcReacquireNoRecheck(t) ==
    /\ pc[t] = "bc_woken"
    /\ intlock = NoThread
    /\ intlock' = t
    /\ intwait' = [intwait EXCEPT ![t] = 0]
    /\ intowner' = t
    /\ pc' = [pc EXCEPT ![t] = "held"]
    /\ last_op' = [last_op EXCEPT ![t] = "obtain"]
    /\ signalled' = ""
    /\ UNCHANGED <<syncing, sync_mask, ints_state, guest_ints,
                   started_mask, waiting_mask, sie_mode>>
    /\ UNCHANGED wakevars

\* line 403, second half: wait_condition reacquires sysblk.intlock.
BcReacquire(t) ==
    /\ pc[t] = "bc_woken"
    /\ intlock = NoThread
    /\ intlock' = t
    /\ pc' = [pc EXCEPT ![t] = "check"]
    /\ signalled' = ""
    /\ UNCHANGED <<intowner, syncing, sync_mask, intwait, ints_state, guest_ints,
                   started_mask, waiting_mask, sie_mode, last_op>>
    /\ UNCHANGED wakevars

\* Mutant of ObtainCpuDone: the loop of lines 396-404 is left out, the
\* processor becomes the owner whatever sysblk.syncing is.
ObtainCpuDoneIgnoreSyncing(t) ==
    /\ pc[t] = "check"
    /\ t \in Cpus
    /\ intwait' = [intwait EXCEPT ![t] = 0]
    /\ intowner' = t
    /\ pc' = [pc EXCEPT ![t] = "held"]
    /\ last_op' = [last_op EXCEPT ![t] = "obtain"]
    /\ signalled' = ""
    /\ UNCHANGED <<intlock, syncing, sync_mask, ints_state, guest_ints,
                   started_mask, waiting_mask, sie_mode>>
    /\ UNCHANGED wakevars

\* lines 406-407: the while loop is left, the processor becomes the owner.
ObtainCpuDone(t) ==
    /\ pc[t] = "check"
    /\ t \in Cpus
    /\ syncing = 0
    /\ intwait' = [intwait EXCEPT ![t] = 0]
    /\ intowner' = t
    /\ pc' = [pc EXCEPT ![t] = "held"]
    /\ last_op' = [last_op EXCEPT ![t] = "obtain"]
    /\ signalled' = ""
    /\ UNCHANGED <<intlock, syncing, sync_mask, ints_state, guest_ints,
                   started_mask, waiting_mask, sie_mode>>
    /\ UNCHANGED wakevars

\* Mutant of ObtainOtherDone: the non-CPU thread becomes the owner only when
\* no barrier is in progress, as a processor does.
ObtainOtherDoneWhenIdle(t) ==
    /\ pc[t] = "check"
    /\ t \in Others
    /\ syncing = 0
    /\ intowner' = LOCK_OWNER_OTHER
    /\ pc' = [pc EXCEPT ![t] = "held"]
    /\ last_op' = [last_op EXCEPT ![t] = "obtain"]
    /\ signalled' = ""
    /\ UNCHANGED <<intlock, syncing, sync_mask, intwait, ints_state, guest_ints,
                   started_mask, waiting_mask, sie_mode>>
    /\ UNCHANGED wakevars

\* lines 409-410: regs == NULL.
ObtainOtherDone(t) ==
    /\ pc[t] = "check"
    /\ t \in Others
    /\ intowner' = LOCK_OWNER_OTHER
    /\ pc' = [pc EXCEPT ![t] = "held"]
    /\ last_op' = [last_op EXCEPT ![t] = "obtain"]
    /\ signalled' = ""
    /\ UNCHANGED <<intlock, syncing, sync_mask, intwait, ints_state, guest_ints,
                   started_mask, waiting_mask, sie_mode>>
    /\ UNCHANGED wakevars

(***************************************************************************)
(* Release_Interrupt_Lock                                                  *)
(***************************************************************************)
\* Mutant of Release: line 418, sysblk.intowner = LOCK_OWNER_NONE, is left
\* out.
ReleaseKeepsOwner(t) ==
    /\ pc[t] = "held"
    /\ intlock' = NoThread
    /\ pc' = [pc EXCEPT ![t] = "run"]
    /\ last_op' = [last_op EXCEPT ![t] = "none"]
    /\ signalled' = ""
    /\ UNCHANGED <<intowner, syncing, sync_mask, intwait, ints_state, guest_ints,
                   started_mask, waiting_mask, sie_mode>>
    /\ UNCHANGED wakevars

\* Mutant of Release: the threads parked on sync_bc_cond are woken as well.
ReleaseBroadcasts(t) ==
    /\ pc[t] = "held"
    /\ intowner' = LOCK_OWNER_NONE
    /\ intlock' = NoThread
    /\ pc' = BroadcastCondition([pc EXCEPT ![t] = "run"], "bc_wait", "bc_woken")
    /\ last_op' = [last_op EXCEPT ![t] = "none"]
    /\ signalled' = "sync_bc_cond"
    /\ UNCHANGED <<syncing, sync_mask, intwait, ints_state, guest_ints,
                   started_mask, waiting_mask, sie_mode>>
    /\ UNCHANGED wakevars

\* lines 418-419, called by the holder.
Release(t) ==
    /\ pc[t] = "held"
    /\ intowner' = LOCK_OWNER_NONE
    /\ intlock' = NoThread
    /\ pc' = [pc EXCEPT ![t] = "run"]
    /\ last_op' = [last_op EXCEPT ![t] = "none"]
    /\ signalled' = ""
    /\ UNCHANGED <<syncing, sync_mask, intwait, ints_state, guest_ints,
                   started_mask, waiting_mask, sie_mode>>
    /\ UNCHANGED wakevars

(***************************************************************************)
(* synchronize_cpus                                                        *)
(***************************************************************************)
\* Mutant of SyncCandidates: sysblk.waiting_mask is not deselected.
SyncCandidatesWithWaiting(self) ==
    ClearBit(started_mask, self)

\* lines 249-252: started processors that are neither waiting nor self.
SyncCandidates(self) ==
    ClearBit(AndNot(started_mask, waiting_mask), self)

\* Mutant of SyncScan: the interrupt-pending condition is set before the
\* test of AT_SYNCPOINT, on every selected processor.
RECURSIVE SyncScanMarksAll(_, _, _, _, _)
SyncScanMarksAll(i, mask, n, ints, gints) ==
    IF ~(mask # 0 /\ i < HiCpu)
    THEN [mask |-> mask, n |-> n, ints |-> ints, gints |-> gints]
    ELSE IF TestBit(mask, i)
         THEN IF AT_SYNCPOINT(i)
              THEN SyncScanMarksAll(i + 1, FlipBit(mask, i), n,
                                    ON_IC_INTERRUPT(ints, i), gints)
              ELSE SyncScanMarksAll(i + 1, mask, n + 1, ON_IC_INTERRUPT(ints, i),
                            IF SIE_MODE(i) THEN ON_IC_INTERRUPT(gints, i) ELSE gints)
         ELSE SyncScanMarksAll(i + 1, mask, n, ints, gints)

\* lines 256-279: the loop over the processors, from index i on.  The result
\* is the mask left, the count n and the interrupt-pending conditions.
RECURSIVE SyncScan(_, _, _, _, _)
SyncScan(i, mask, n, ints, gints) ==
    IF ~(mask # 0 /\ i < HiCpu)
    THEN [mask |-> mask, n |-> n, ints |-> ints, gints |-> gints]
    ELSE IF TestBit(mask, i)
         THEN IF AT_SYNCPOINT(i)
              THEN SyncScan(i + 1, FlipBit(mask, i), n, ints, gints)
              ELSE SyncScan(i + 1, mask, n + 1, ON_IC_INTERRUPT(ints, i),
                            IF SIE_MODE(i) THEN ON_IC_INTERRUPT(gints, i) ELSE gints)
         ELSE SyncScan(i + 1, mask, n, ints, gints)

\* Mutant of SyncMustWait: one outstanding processor is not waited for.
SyncMustWaitOffByOne(scan) == scan.n > 1 /\ scan.mask # 0

\* line 285: if (n && mask)
SyncMustWait(scan) == scan.n # 0 /\ scan.mask # 0

\* Mutant of SyncStart: line 288, sysblk.syncing = 1, is left out.
SyncStartNoFlag(t) ==
    /\ pc[t] = "held"
    /\ t \in Cpus
    /\ LET scan == SyncScan(0, SyncCandidates(t), 0, ints_state, guest_ints)
       IN  /\ SyncMustWait(scan)
           /\ ints_state' = scan.ints
           /\ guest_ints' = scan.gints
           /\ sync_mask' = scan.mask
    /\ intowner' = LOCK_OWNER_NONE
    /\ intlock' = NoThread
    /\ pc' = [pc EXCEPT ![t] = "sync_wait"]
    /\ signalled' = ""
    /\ UNCHANGED <<syncing, intwait, started_mask, waiting_mask, sie_mode, last_op>>
    /\ UNCHANGED wakevars

\* lines 249-291 with n && mask: the barrier is started and the caller parks
\* on sync_cond, which releases sysblk.intlock.
SyncStart(t) ==
    /\ pc[t] = "held"
    /\ t \in Cpus
    /\ LET scan == SyncScan(0, SyncCandidates(t), 0, ints_state, guest_ints)
       IN  /\ SyncMustWait(scan)
           /\ ints_state' = scan.ints
           /\ guest_ints' = scan.gints
           /\ sync_mask' = scan.mask
    /\ syncing' = 1
    /\ intowner' = LOCK_OWNER_NONE
    /\ intlock' = NoThread
    /\ pc' = [pc EXCEPT ![t] = "sync_wait"]
    /\ signalled' = ""
    /\ UNCHANGED <<intwait, started_mask, waiting_mask, sie_mode, last_op>>
    /\ UNCHANGED wakevars

\* lines 249-285 and 302 without n && mask: the call returns at once.
SyncEarly(t) ==
    /\ pc[t] = "held"
    /\ t \in Cpus
    /\ LET scan == SyncScan(0, SyncCandidates(t), 0, ints_state, guest_ints)
       IN  /\ ~SyncMustWait(scan)
           /\ ints_state' = scan.ints
           /\ guest_ints' = scan.gints
    /\ last_op' = [last_op EXCEPT ![t] = "sync_early"]
    /\ signalled' = ""
    /\ UNCHANGED <<pc, intlock, intowner, syncing, sync_mask, intwait,
                   started_mask, waiting_mask, sie_mode>>
    /\ UNCHANGED wakevars

\* line 291, second half: wait_condition reacquires sysblk.intlock.
SyncReacquire(t) ==
    /\ pc[t] = "sync_woken"
    /\ intlock = NoThread
    /\ intlock' = t
    /\ pc' = [pc EXCEPT ![t] = "sync_resume"]
    /\ signalled' = ""
    /\ UNCHANGED <<intowner, syncing, sync_mask, intwait, ints_state, guest_ints,
                   started_mask, waiting_mask, sie_mode, last_op>>
    /\ UNCHANGED wakevars

\* Mutant of SyncResume: line 296 calls signal_condition, which wakes one
\* thread parked on sync_bc_cond.
SyncResumeSignalsOne(t) ==
    /\ pc[t] = "sync_resume"
    /\ intowner' = t
    /\ syncing' = 0
    /\ pc' \in SignalCondition([pc EXCEPT ![t] = "held"], "bc_wait", "bc_woken")
    /\ last_op' = [last_op EXCEPT ![t] = "sync_waited"]
    /\ signalled' = "sync_bc_cond"
    /\ UNCHANGED <<intlock, sync_mask, intwait, ints_state, guest_ints,
                   started_mask, waiting_mask, sie_mode>>
    /\ UNCHANGED wakevars

\* Mutant of SyncResume: line 293, sysblk.intowner = cpuad, is left out.
SyncResumeNoOwner(t) ==
    /\ pc[t] = "sync_resume"
    /\ syncing' = 0
    /\ pc' = BroadcastCondition([pc EXCEPT ![t] = "held"], "bc_wait", "bc_woken")
    /\ last_op' = [last_op EXCEPT ![t] = "sync_waited"]
    /\ signalled' = "sync_bc_cond"
    /\ UNCHANGED <<intlock, intowner, sync_mask, intwait, ints_state, guest_ints,
                   started_mask, waiting_mask, sie_mode>>
    /\ UNCHANGED wakevars

\* lines 293-296 and 302.
SyncResume(t) ==
    /\ pc[t] = "sync_resume"
    /\ intowner' = t
    /\ syncing' = 0
    /\ pc' = BroadcastCondition([pc EXCEPT ![t] = "held"], "bc_wait", "bc_woken")
    /\ last_op' = [last_op EXCEPT ![t] = "sync_waited"]
    /\ signalled' = "sync_bc_cond"
    /\ UNCHANGED <<intlock, sync_mask, intwait, ints_state, guest_ints,
                   started_mask, waiting_mask, sie_mode>>
    /\ UNCHANGED wakevars

(***************************************************************************)
(* Release_Interrupt_Lock called by a thread that does not hold the lock.  *)
(***************************************************************************)
\* lines 417-419 run unconditionally: regs is unreferenced and nothing is
\* tested.  release_lock on a mutex the caller does not own either fails and
\* leaves the mutex as it is, or unlocks it.
ReleaseNotHeld(t) ==
    /\ pc[t] = "run"
    /\ Active(t)
    /\ intowner' = LOCK_OWNER_NONE
    /\ intlock' \in {intlock, NoThread}
    /\ signalled' = ""
    /\ UNCHANGED <<pc, syncing, sync_mask, intwait, ints_state, guest_ints,
                   started_mask, waiting_mask, sie_mode, last_op>>
    /\ UNCHANGED wakevars

(***************************************************************************)
(* The lock and barrier system.                                            *)
(***************************************************************************)
\* The processors' configuration: any set of started processors, any of
\* them in a wait state, and at most one of the running ones in SIE mode.
Configs ==
    {c \in [started : AllMasks, waiting : AllMasks, sie : [Cpus -> BOOLEAN]] :
        /\ AndNot(c.waiting, c.started) = 0
        /\ \A i \in Cpus :
              c.sie[i] => TestBit(c.started, i) /\ ~TestBit(c.waiting, i)
        /\ \A i, j \in Cpus : c.sie[i] /\ c.sie[j] => i = j}

WakeIdle ==
    /\ waittod = [i \in Cpus |-> 0]
    /\ waittime = [i \in Cpus |-> 0]
    /\ wake_call = [op |-> "none", mask |-> 0]
    /\ intcond = [i \in Cpus |-> 0]

LockIdle ==
    /\ pc = [t \in Threads |-> "run"]
    /\ intlock = NoThread
    /\ intowner = LOCK_OWNER_NONE
    /\ syncing = 0
    /\ sync_mask = 0
    /\ intwait = [i \in Cpus |-> 0]
    /\ guest_ints = [i \in Cpus |-> 0]
    /\ last_op = [t \in Threads |-> "none"]
    /\ signalled = ""

Init ==
    /\ LockIdle
    /\ ints_state = [i \in Cpus |-> 0]
    /\ \E c \in Configs :
          /\ started_mask = c.started
          /\ waiting_mask = c.waiting
          /\ sie_mode = c.sie
    /\ WakeIdle

Next ==
    \E t \in Threads :
        \/ ObtainEnter(t)
        \/ ObtainLock(t)
        \/ SyncParticipate(t)
        \/ BcReacquire(t)
        \/ ObtainCpuDone(t)
        \/ ObtainOtherDone(t)
        \/ SyncStart(t)
        \/ SyncEarly(t)
        \/ SyncReacquire(t)
        \/ SyncResume(t)
        \/ Release(t)

Spec == Init /\ [][Next]_vars

\* The steps a thread is bound to take: it runs on while it holds the mutex,
\* it gets the mutex it contends for, a holder calls Release_Interrupt_Lock,
\* and a processor the barrier waits for reaches Obtain_Interrupt_Lock.
Proceed(t) ==
    \/ ObtainLock(t)
    \/ SyncParticipate(t)
    \/ BcReacquire(t)
    \/ ObtainCpuDone(t)
    \/ ObtainOtherDone(t)
    \/ SyncReacquire(t)
    \/ SyncResume(t)
    \/ Release(t)
    \/ (syncing = 1 /\ t \in Cpus /\ TestBit(sync_mask, t) /\ ObtainEnter(t))

\* Fair scheduling: every processor thread takes the steps it is bound to
\* take, the non-CPU threads do not stop while one of them can take such a
\* step, and only finitely many barriers are started.
Fairness ==
    /\ \A i \in Cpus : SF_vars(Proceed(i))
    /\ SF_vars(\E t \in Others : Proceed(t))
    /\ <>[][\A t \in Threads : ~SyncStart(t)]_vars

\* The system with every processor started and running, and an interrupt
\* pending on every processor.
InitFair ==
    /\ LockIdle
    /\ ints_state = [i \in Cpus |-> 1]
    /\ started_mask = CPU_BIT(HiCpu) - 1
    /\ waiting_mask = 0
    /\ sie_mode = [i \in Cpus |-> FALSE]
    /\ WakeIdle

FairSpec == InitFair /\ [][Next]_vars /\ Fairness

\* The lock and barrier system with callers that break the contract of
\* Release_Interrupt_Lock.
NextMisuse ==
    \/ Next
    \/ \E t \in Threads : ReleaseNotHeld(t)

SpecMisuse == Init /\ [][NextMisuse]_vars

(***************************************************************************)
(* wakeup_cpu, wakeup_cpu_mask, wakeup_cpus_mask                           *)
(***************************************************************************)
NoSignals == [i \in Cpus |-> 0]

\* lines 310-313: signal_condition( &regs->intcond ); sig counts the signals
\* issued on every processor's intcond.
wakeup_cpu(sig, i) == [sig EXCEPT ![i] = @ + 1]

\* Mutant of LruReplaces: the test current_waittod > 0 of line 349 is left
\* out.
LruReplacesNoZeroTest(lru_regs, lru_waittod, current_regs) ==
    \/ lru_regs = NULL
    \/ waittod[current_regs] < lru_waittod
    \/ /\ waittod[current_regs] = lru_waittod
       /\ waittime[current_regs] >= waittime[lru_regs]

\* lines 348-352: the test that makes the current processor the LRU one.
LruReplaces(lru_regs, lru_waittod, current_regs) ==
    \/ lru_regs = NULL
    \/ /\ waittod[current_regs] > 0
       /\ \/ waittod[current_regs] < lru_waittod
          \/ /\ waittod[current_regs] = lru_waittod
             /\ waittime[current_regs] >= waittime[lru_regs]

\* Mutant of LruScan: the test of line 329, mask & 1, is left out.
RECURSIVE LruScanEverySlot(_, _, _, _)
LruScanEverySlot(mask, i, lru_regs, lru_waittod) ==
    IF mask = 0 THEN lru_regs
    ELSE IF LruReplaces(lru_regs, lru_waittod, i)
         THEN LruScanEverySlot(mask \div 2, i + 1, i, waittod[i])
         ELSE LruScanEverySlot(mask \div 2, i + 1, lru_regs, lru_waittod)

\* lines 327-358: for (i=0; mask; mask >>= 1, ++i); the result is lru_regs.
RECURSIVE LruScan(_, _, _, _)
LruScan(mask, i, lru_regs, lru_waittod) ==
    IF mask = 0 THEN lru_regs
    ELSE IF mask % 2 = 1 /\ LruReplaces(lru_regs, lru_waittod, i)
         THEN LruScan(mask \div 2, i + 1, i, waittod[i])
         ELSE LruScan(mask \div 2, i + 1, lru_regs, lru_waittod)

\* lines 317-363: the signals wakeup_cpu_mask( mask ) issues.  lru_waittod is
\* not initialized; it is read only once lru_regs is set.
wakeup_cpu_mask(mask) ==
    IF mask # 0
    THEN wakeup_cpu(NoSignals, LruScan(mask, 0, NULL, 0))
    ELSE NoSignals

\* Mutant of WakeAllScan: the loop is left after the first wakeup.
RECURSIVE WakeAllScanFirstOnly(_, _, _)
WakeAllScanFirstOnly(mask, i, sig) ==
    IF mask = 0 THEN sig
    ELSE IF mask % 2 = 1 THEN wakeup_cpu(sig, i)
         ELSE WakeAllScanFirstOnly(mask \div 2, i + 1, sig)

\* lines 371-375: for (i=0; mask; mask >>= 1, i++), from index i on.
RECURSIVE WakeAllScan(_, _, _)
WakeAllScan(mask, i, sig) ==
    IF mask = 0 THEN sig
    ELSE WakeAllScan(mask \div 2, i + 1,
                     IF mask % 2 = 1 THEN wakeup_cpu(sig, i) ELSE sig)

\* lines 367-376: the signals wakeup_cpus_mask( mask ) issues.
wakeup_cpus_mask(mask) == WakeAllScan(mask, 0, NoSignals)

\* A call of WAKEUP_CPU_MASK( mask ).
WakeupCpuMaskCall(mask) ==
    /\ wake_call.op = "none"
    /\ wake_call' = [op |-> "wakeup_cpu_mask", mask |-> mask]
    /\ intcond' = wakeup_cpu_mask(mask)
    /\ UNCHANGED <<waittod, waittime>>
    /\ UNCHANGED lockvars

\* A call of WAKEUP_CPUS_MASK( mask ).
WakeupCpusMaskCall(mask) ==
    /\ wake_call.op = "none"
    /\ wake_call' = [op |-> "wakeup_cpus_mask", mask |-> mask]
    /\ intcond' = wakeup_cpus_mask(mask)
    /\ UNCHANGED <<waittod, waittime>>
    /\ UNCHANGED lockvars

\* A call of WAKEUP_CPU( regs ) for processor i.
WakeupCpuCall(i) ==
    /\ wake_call.op = "none"
    /\ wake_call' = [op |-> "wakeup_cpu", mask |-> CPU_BIT(i)]
    /\ intcond' = wakeup_cpu(NoSignals, i)
    /\ UNCHANGED <<waittod, waittime>>
    /\ UNCHANGED lockvars

\* The signals of the last call have been observed; the next call can be made.
WakeupObserved ==
    /\ wake_call.op # "none"
    /\ wake_call' = [op |-> "none", mask |-> 0]
    /\ intcond' = NoSignals
    /\ UNCHANGED <<waittod, waittime>>
    /\ UNCHANGED lockvars

\* The wakeup dispatcher on its own: every processor started, any wait
\* timestamps (a processor with a nonzero waittod is in a wait state), any
\* sequence of wakeup calls with any mask.
InitWake ==
    /\ LockIdle
    /\ ints_state = [i \in Cpus |-> 0]
    /\ started_mask = CPU_BIT(HiCpu) - 1
    /\ waittod \in [Cpus -> 0 .. MaxTod]
    /\ waiting_mask = MaskOf({i \in Cpus : waittod[i] > 0})
    /\ sie_mode = [i \in Cpus |-> FALSE]
    /\ waittime \in [Cpus -> 0 .. MaxTime]
    /\ wake_call = [op |-> "none", mask |-> 0]
    /\ intcond = NoSignals

NextWake ==
    \/ \E mask \in AllMasks : WakeupCpuMaskCall(mask)
    \/ \E mask \in AllMasks : WakeupCpusMaskCall(mask)
    \/ \E i \in Cpus : WakeupCpuCall(i)
    \/ WakeupObserved

SpecWake == InitWake /\ [][NextWake]_vars

(***************************************************************************)
(* Properties of the interrupt lock and the barrier.                       *)
(***************************************************************************)
\* A holder has returned from Obtain_Interrupt_Lock, has not yet called
\* Release_Interrupt_Lock and is not suspended inside synchronize_cpus.
Holders == {t \in Threads : pc[t] = "held"}

\* The thread returned from synchronize_cpus on the waiting path, and has
\* done nothing since.
ReturnedFromWait(t) == pc[t] = "held" /\ last_op[t] = "sync_waited"

\* The thread returned from synchronize_cpus, on either path.
ReturnedFromSync(t) ==
    pc[t] = "held" /\ last_op[t] \in {"sync_early", "sync_waited"}

\* The processor is stopped inside Obtain_Interrupt_Lock: waiting for the
\* mutex or parked on sync_bc_cond.
BlockedInObtain(i) == pc[i] \in {"lock", "bc_wait", "bc_woken"}

\* C1: mutual exclusion: at every instant at most one thread is a holder of
\* the interrupt lock, and the holder is the thread that owns the mutex.
C1_MutualExclusion ==
    /\ Cardinality(Holders) <= 1
    /\ \A t \in Holders : intlock = t

\* C1: a non-CPU thread holds the lock while a processor is suspended inside
\* synchronize_cpus and another processor waits for the mutex.
C1_Witness ==
    \E t \in Others, u, w \in Cpus :
        pc[t] = "held" /\ pc[u] = "sync_wait" /\ pc[w] = "lock"

\* C2: barrier completeness: a synchronize_cpus that took the waiting path
\* is woken, resumes and returns only with sync_mask empty.
C2_BarrierComplete ==
    \A t \in Cpus :
        (pc[t] \in {"sync_woken", "sync_resume"} \/ ReturnedFromWait(t))
            => sync_mask = 0

\* C2: a barrier that waited for two processors has returned.
C2_Witness ==
    \E t, i, j \in Cpus :
        /\ ReturnedFromWait(t)
        /\ i # j
        /\ ints_state[i] = 1 /\ ints_state[j] = 1
        /\ pc[i] \in {"bc_wait", "bc_woken"} /\ pc[j] \in {"bc_wait", "bc_woken"}

\* C3: no processor is missed: when synchronize_cpus(self) has returned,
\* every processor of started_mask & ~waiting_mask & ~self.cpubit has its
\* intwait flag set and is blocked inside Obtain_Interrupt_Lock.
C3_NoProcessorMissed ==
    \A t \in Cpus :
        ReturnedFromSync(t) =>
            \A i \in BitsOf(SyncCandidates(t)) :
                intwait[i] = 1 /\ BlockedInObtain(i)

\* C3: a barrier has returned on the waiting path with one candidate parked
\* on sync_bc_cond and another that was already waiting for the mutex.
C3_Witness ==
    \E t, i, j \in Cpus :
        /\ ReturnedFromWait(t)
        /\ {i, j} \subseteq BitsOf(SyncCandidates(t))
        /\ pc[i] = "bc_woken" /\ ints_state[i] = 1
        /\ pc[j] = "lock" /\ ints_state[j] = 0

\* C4: whenever syncing is false, sync_mask is empty.
C4_MaskOnlyWhileSyncing == syncing = 0 => sync_mask = 0

\* C4: a barrier has been started and has resolved, and a later call of
\* synchronize_cpus returned early.
C4_Witness ==
    \E t \in Cpus, i \in Cpus :
        /\ pc[t] = "held" /\ last_op[t] = "sync_early"
        /\ ints_state[i] = 1
        /\ syncing = 0

C6_BarrierTerminates ==
    \A t \in Cpus : (pc[t] = "sync_wait") ~> ReturnedFromWait(t)

\* C6: a barrier that waited for every other processor has returned, after
\* its caller contended for the mutex with a non-CPU thread that still waits
\* for it.
C6_Witness ==
    \E t \in Cpus, x \in Others :
        /\ ReturnedFromWait(t)
        /\ pc[x] = "lock"
        /\ \A i \in Cpus \ {t} : pc[i] = "bc_woken"

\* C10: Release_Interrupt_Lock by a thread that does not hold the interrupt
\* lock changes neither intowner nor the state of the mutex.
C10_ReleaseByNonHolderRejected ==
    [][\A t \in Threads :
          ReleaseNotHeld(t) => (intowner' = intowner /\ intlock' = intlock)]_vars

\* C11: postcondition of synchronize_cpus(self), on the early-return path
\* and on the waiting path: the caller owns the mutex, intowner is the
\* caller's processor id and syncing is false.
C11_SyncPostcondition ==
    \A t \in Cpus :
        ReturnedFromSync(t) => (intlock = t /\ intowner = t /\ syncing = 0)

\* C11: the caller of a barrier that waited has called synchronize_cpus again
\* and returned early, while a processor woken from sync_bc_cond by the first
\* call has not yet reacquired the mutex.
C11_Witness ==
    \E t, u \in Cpus :
        /\ pc[t] = "held" /\ last_op[t] = "sync_early"
        /\ ints_state[u] = 1
        /\ pc[u] = "bc_woken"

\* The thread executes inside a lock operation: it has got the mutex in
\* Obtain_Interrupt_Lock and has not yet returned, or it is inside
\* synchronize_cpus.  A thread that only waits for the mutex is not.
InsideLockOperation(t) ==
    pc[t] \in {"check", "sync_wait", "sync_woken", "sync_resume"}

\* C12: owner accuracy: in every state where no thread executes inside a
\* lock operation, intowner differs from LOCK_OWNER_NONE exactly when some
\* thread holds the interrupt lock, and then it is the holder's processor id
\* for a processor and LOCK_OWNER_OTHER for a non-CPU thread.
C12_OwnerAccurate ==
    (\A t \in Threads : ~InsideLockOperation(t)) =>
        /\ (intowner # LOCK_OWNER_NONE) <=> (Holders # {})
        /\ \A t \in Holders :
              intowner = IF t \in Cpus THEN t ELSE LOCK_OWNER_OTHER

\* C12: after a barrier has resolved a non-CPU thread holds the lock, while
\* a processor woken from sync_bc_cond and a processor at obtain_lock wait
\* for the mutex, and no thread is inside a lock operation.
C12_Witness ==
    /\ \A t \in Threads : ~InsideLockOperation(t)
    /\ \E x \in Others, i, j \in Cpus :
          /\ pc[x] = "held" /\ intowner = LOCK_OWNER_OTHER
          /\ pc[i] = "bc_woken"
          /\ pc[j] = "lock"

\* C13: a step in which the holder t returns from Release_Interrupt_Lock sets
\* intowner to LOCK_OWNER_NONE and frees the mutex, leaves sync_mask,
\* syncing, every intwait flag and every pending-interrupt condition as they
\* were, signals no condition and wakes no thread.
C13_ReleaseFrame ==
    [][\A t \in Threads :
          (pc[t] = "held" /\ pc'[t] = "run") =>
              /\ intowner' = LOCK_OWNER_NONE
              /\ intlock' = NoThread
              /\ UNCHANGED <<sync_mask, syncing, intwait, ints_state, guest_ints>>
              /\ signalled' = ""
              /\ \A u \in Threads \ {t} : pc'[u] = pc[u]]_vars

\* C13: the lock has been released after a barrier resolved (no write of
\* intowner but that of Release_Interrupt_Lock leaves it NONE with syncing
\* false), with intwait flags and pending interrupts set and a processor
\* woken from sync_bc_cond still waiting for the mutex.
C13_Witness ==
    /\ intowner = LOCK_OWNER_NONE
    /\ intlock = NoThread
    /\ syncing = 0
    /\ \A t \in Threads : pc[t] # "held"
    /\ \E i, j \in Cpus :
          /\ pc[i] = "bc_woken" /\ intwait[i] = 1 /\ ints_state[i] = 1
          /\ pc[j] = "run" /\ intwait[j] = 0

\* The processors a barrier of t has to wait for: started, not in a wait
\* state, not t and not at a sync point.
BarrierTargets(t) ==
    {i \in Cpus : /\ TestBit(started_mask, i)
                  /\ ~TestBit(waiting_mask, i)
                  /\ i # t
                  /\ ~AT_SYNCPOINT(i)}

C15_NoObtainDuringBarrier ==
    /\ [](\A i \in Cpus :
            (pc[i] = "held" /\ last_op[i] = "obtain") =>
                (syncing = 0 /\ intwait[i] = 0 /\ intowner = i))
    /\ [][\A i \in Cpus :
            /\ (pc[i] = "check" /\ pc'[i] = "held") =>
                  /\ syncing = 0 /\ syncing' = 0
                  /\ intwait[i] = 1 /\ intwait'[i] = 0
                  /\ intowner' = i
            /\ (pc[i] = "bc_woken" /\ pc'[i] # "bc_woken") => pc'[i] = "check"
            /\ (pc[i] = "check" /\ syncing = 1 /\ pc'[i] # "check") =>
                  /\ pc'[i] = "bc_wait"
                  /\ ~TestBit(sync_mask', i)
                  /\ syncing' = 1]_vars

\* C15: a processor woken from sync_bc_cond when a barrier resolved has not
\* yet reacquired the mutex, and a later barrier, started by a processor the
\* earlier one had stopped, is in progress with a processor outstanding.
C15_Witness ==
    \E i, j \in Cpus :
        /\ pc[i] = "bc_woken" /\ intwait[i] = 1
        /\ syncing = 1 /\ sync_mask # 0
        /\ pc[j] = "sync_wait" /\ ints_state[j] = 1

\* C16: a non-CPU thread that has the mutex in Obtain_Interrupt_Lock( NULL )
\* can return at once whatever syncing is, and returns with intowner =
\* LOCK_OWNER_OTHER; it never parks on a condition; no step of its call
\* changes sync_mask, syncing or an intwait flag, signals a condition or
\* moves another thread.
C16_ExternalObtainFrame ==
    /\ [](\A x \in Others :
            /\ pc[x] \in {"run", "lock", "check", "held"}
            /\ pc[x] = "check" => ENABLED ObtainOtherDone(x))
    /\ [][\A x \in Others :
            /\ (pc[x] = "check" /\ pc'[x] # "check") =>
                  (pc'[x] = "held" /\ intowner' = LOCK_OWNER_OTHER /\ intlock' = x)
            /\ (pc'[x] # pc[x] /\ pc'[x] # "run") =>
                  /\ UNCHANGED <<sync_mask, syncing, intwait>>
                  /\ signalled' = ""
                  /\ \A u \in Threads \ {x} : pc'[u] = pc[u]]_vars

\* C16: a non-CPU thread holds the lock while a barrier is in progress: the
\* caller is parked on sync_cond, one processor has arrived and is parked on
\* sync_bc_cond, another is still outstanding.
C16_Witness ==
    \E x \in Others, t, i \in Cpus :
        /\ pc[x] = "held" /\ intowner = LOCK_OWNER_OTHER
        /\ syncing = 1 /\ sync_mask # 0
        /\ pc[t] = "sync_wait"
        /\ pc[i] = "bc_wait"

\* C17: early return: a call of synchronize_cpus(t) made when no started,
\* non-waiting processor other than t is away from a sync point returns at
\* once: t still owns the mutex, no thread moves, sync_mask, syncing and
\* intowner are unchanged, no interrupt-pending condition is set and no
\* condition is signalled; and the call returns at once only then.
C17_EarlyReturnFrame ==
    [][\A t \in Cpus :
          /\ (/\ pc[t] = "held"
              /\ BarrierTargets(t) = {}
              /\ SyncEarly(t) \/ SyncStart(t)) =>
                /\ pc' = pc /\ pc'[t] = "held"
                /\ intlock = t /\ intlock' = t
                /\ UNCHANGED <<sync_mask, syncing, intowner, ints_state, guest_ints>>
                /\ signalled' = ""
          /\ (last_op'[t] # last_op[t] /\ SyncEarly(t)) =>
                BarrierTargets(t) = {}]_vars

\* C17: synchronize_cpus(t) has returned early, no barrier having run
\* before: one other processor is in a wait state, the remaining ones are
\* at a sync point, waiting for the mutex t holds.
C17_Witness ==
    \E t, d \in Cpus :
        /\ pc[t] = "held" /\ last_op[t] = "sync_early"
        /\ TestBit(waiting_mask, d)
        /\ BitsOf(SyncCandidates(t)) # {}
        /\ \A i \in BitsOf(SyncCandidates(t)) : pc[i] = "lock" /\ intwait[i] = 1
        /\ \A k \in Cpus : ints_state[k] = 0 /\ guest_ints[k] = 0

\* C18: barrier participation: a processor that parks on sync_bc_cond in
\* Obtain_Interrupt_Lock removes its own bit from sync_mask and no other;
\* while syncing stays true no bit is added to sync_mask; sync_cond is
\* signalled only by such a processor and only with sync_mask empty; and the
\* processor whose removal empties sync_mask signals it and thereby wakes
\* the caller parked on sync_cond.
C18_BarrierParticipation ==
    [][/\ \A t \in Cpus :
             (pc[t] = "check" /\ pc'[t] = "bc_wait") =>
                 /\ syncing = 1
                 /\ sync_mask' = MaskOf(BitsOf(sync_mask) \ {t})
                 /\ (sync_mask # 0 /\ sync_mask' = 0) =>
                       /\ signalled' = "sync_cond"
                       /\ \E c \in Cpus : pc[c] = "sync_wait" /\ pc'[c] = "sync_woken"
       /\ (syncing = 1 /\ syncing' = 1) =>
             BitsOf(sync_mask') \subseteq BitsOf(sync_mask)
       /\ signalled' = "sync_cond" =>
             /\ sync_mask' = 0
             /\ syncing = 1
             /\ \E t \in Cpus : pc[t] = "check" /\ pc'[t] = "bc_wait"]_vars

\* C18: the second of two outstanding processors has just removed its bit,
\* emptied sync_mask and signalled sync_cond: the caller is woken and both
\* processors are parked on sync_bc_cond.
C18_Witness ==
    \E t, i, j \in Cpus :
        /\ i # j
        /\ signalled = "sync_cond"
        /\ syncing = 1 /\ sync_mask = 0
        /\ pc[t] = "sync_woken"
        /\ pc[i] = "bc_wait" /\ ints_state[i] = 1
        /\ pc[j] = "bc_wait" /\ ints_state[j] = 1

\* The threads suspended inside synchronize_cpus: parked on sync_cond, or
\* woken from it and not yet returned.
InBarrier == {t \in Threads : pc[t] \in {"sync_wait", "sync_woken", "sync_resume"}}

\* C20: at most one barrier is in progress: at most one thread is suspended
\* inside synchronize_cpus, it is there only while syncing is true, and a
\* call of synchronize_cpus that starts a barrier finds syncing false and
\* sync_mask empty, so that it overwrites no barrier in progress.
C20_AtMostOneBarrier ==
    /\ [](/\ Cardinality(InBarrier) <= 1
          /\ InBarrier # {} => syncing = 1)
    /\ [][\A t \in Cpus :
            (pc[t] = "held" /\ pc'[t] = "sync_wait") =>
                (syncing = 0 /\ sync_mask = 0 /\ InBarrier = {})]_vars

\* C20: a second barrier is in progress after a first one has resolved: its
\* caller j was stopped by the first, the caller of the first is parked on
\* sync_bc_cond, and a non-CPU thread holds the lock.
C20_Witness ==
    \E j, t \in Cpus, x \in Others :
        /\ j # t
        /\ pc[j] = "sync_wait" /\ ints_state[j] = 1
        /\ pc[t] = "bc_wait" /\ ints_state[t] = 1
        /\ pc[x] = "held"
        /\ syncing = 1

(***************************************************************************)
(* Properties of the wakeup dispatcher.                                    *)
(***************************************************************************)
\* The processors the last wakeup call signalled.
Woken == {i \in Cpus : intcond[i] > 0}

\* The smallest nonzero waittod among the processors of S.
MinWaittod(S) ==
    CHOOSE v \in 1 .. MaxTod :
        /\ \E i \in S : waittod[i] = v
        /\ \A i \in S : waittod[i] > 0 => waittod[i] >= v

\* C7: LRU correctness: when some processor of a non-empty mask has a
\* nonzero waittod, wakeup_cpu_mask wakes a processor of the mask whose
\* waittod is the smallest nonzero one, and among those tied at it one with
\* the largest waittime.
C7_LruCorrect ==
    LET S == BitsOf(wake_call.mask)
    IN  (/\ wake_call.op = "wakeup_cpu_mask"
         /\ \E i \in S : waittod[i] > 0)
        => /\ Woken # {}
           /\ \A w \in Woken :
                 /\ w \in S
                 /\ waittod[w] = MinWaittod(S)
                 /\ \A i \in S : waittod[i] = waittod[w] => waittime[i] <= waittime[w]

\* C8: wakeup_cpu_mask issues exactly one signal, to a processor of the mask,
\* when the mask is non-empty, and none when it is empty.
C8_ExactlyOneWake ==
    wake_call.op = "wakeup_cpu_mask" =>
        IF wake_call.mask = 0
        THEN intcond = NoSignals
        ELSE \E w \in BitsOf(wake_call.mask) :
                 intcond = [NoSignals EXCEPT ![w] = 1]

\* C8: wakeup_cpu_mask was called with processor 0 outside the mask and has
\* woken a processor that is not the lowest-numbered one of the mask.
C8_Witness ==
    /\ wake_call.op = "wakeup_cpu_mask"
    /\ ~TestBit(wake_call.mask, 0)
    /\ \E w, i \in BitsOf(wake_call.mask) : i < w /\ intcond[w] = 1

\* C9: wakeup_cpus_mask issues exactly one signal to the processor of every
\* set bit of the mask and none to any other processor.
C9_WakeAllComplete ==
    wake_call.op = "wakeup_cpus_mask" =>
        \A i \in Cpus :
            intcond[i] = IF TestBit(wake_call.mask, i) THEN 1 ELSE 0

\* C9: wakeup_cpus_mask was called with two bits set, the lowest bit clear,
\* and processors of different waittod, one of them never waiting.
C9_Witness ==
    /\ wake_call.op = "wakeup_cpus_mask"
    /\ ~TestBit(wake_call.mask, 0)
    /\ \E i, j \in BitsOf(wake_call.mask) :
          /\ i # j
          /\ waittod[i] = 0 /\ waittod[j] > 0
          /\ intcond[i] = 1 /\ intcond[j] = 1

\* The lowest-numbered processor of S, the first one wakeup_cpu_mask examines.
LowestOf(S) == CHOOSE m \in S : \A i \in S : m <= i

\* C19: wakeup_cpu_mask with a zero waittod: a processor whose waittod is 0
\* is woken only when it is the lowest-numbered processor of the mask, and
\* when every processor of a non-empty mask has waittod 0 the lowest-numbered
\* one, and no other, is woken.
C19_ZeroWaittodSeed ==
    LET S == BitsOf(wake_call.mask)
    IN  (wake_call.op = "wakeup_cpu_mask" /\ wake_call.mask # 0) =>
            /\ \A w \in Woken : waittod[w] = 0 => w = LowestOf(S)
            /\ (\A i \in S : waittod[i] = 0) => Woken = {LowestOf(S)}

\* C19: wakeup_cpu_mask was called with a mask without processor 0 in which
\* every processor has waittod 0 and a later one has the larger waittime; the
\* lowest-numbered processor of the mask is woken.
C19_Witness ==
    LET S == BitsOf(wake_call.mask)
    IN  /\ wake_call.op = "wakeup_cpu_mask"
        /\ 0 \notin S
        /\ \A i \in S : waittod[i] = 0
        /\ \E i \in S : i # LowestOf(S) /\ waittime[i] > waittime[LowestOf(S)]
        /\ intcond[LowestOf(S)] = 1

====
